---------------------------- MODULE Spec2Model ----------------------------
(***************************************************************************)
(* A model of the MD5 engine of src/md5.h and src/md5.cpp: the class md5   *)
(* (state words, pending chunk, counters), its nested class md5::sum, and  *)
(* the free function md5hex.                                               *)
(*                                                                         *)
(* Representation.  TLC's integers are 32-bit signed, so a uint32_t is the *)
(* pair <<hi, lo>> of its 16-bit halves and a uint64_t is the tuple of its *)
(* four 16-bit limbs, least significant first.  Both keep the width of the *)
(* C++ type: every addition wraps as the C++ addition does.  A byte is a   *)
(* number in 0..255 and a buffer is a sequence of bytes (index 1 is the    *)
(* C++ index 0).                                                           *)
(***************************************************************************)
EXTENDS Integers, Sequences, FiniteSets, TLC

(* The state: one md5 object (the engine), what the last operation on it   *)
(* returned, and the history of the calls made.                            *)
VARIABLES
  m_state,         \* md5::m_state.u32
  m_chunk,         \* md5::m_chunk.u8
  m_message_size,  \* md5::m_message_size
  m_chunk_size,    \* md5::m_chunk_size
  op,              \* the last operation: "md5" (the constructor), "ingest",
                   \* "digest", "md5hex", "~md5", or "fault" (the process died
                   \* inside ingest on a misaligned read)
  out,             \* the sum the last operation returned, if it was digest
  hexed,           \* <<message, string>> of the last operation, if it was md5hex
  s,               \* history: all bytes handed to ingest so far, in order
  calls,           \* history: the number of calls of ingest
  last,            \* history: the byte_count of the last call of ingest
  resumed,         \* history: ingest was called after a call of digest
  blocks,          \* the blocks the last operation handed to process_chunk
  probes,          \* the calls of is_aligned the last ingest made
  lhs, rhs,        \* two md5::sum values
  cmp              \* <<operator, result>> of the last comparison of lhs and rhs

---------------------------------------------------------------------------
(* Sizes: md5.h:27-30, md5.cpp:38.                                         *)

CHAR_BIT == 8
BYTES_PER_DIGEST == 16
WORDS_PER_DIGEST == BYTES_PER_DIGEST \div 4
BYTES_PER_CHUNK  == 512 \div CHAR_BIT
WORDS_PER_CHUNK  == BYTES_PER_CHUNK \div 4

(* Table of shift offsets, md5.cpp:41-46.                                  *)
ShiftTable ==
  << 7, 12, 17, 22,  7, 12, 17, 22,  7, 12, 17, 22,  7, 12, 17, 22,
     5,  9, 14, 20,  5,  9, 14, 20,  5,  9, 14, 20,  5,  9, 14, 20,
     4, 11, 16, 23,  4, 11, 16, 23,  4, 11, 16, 23,  4, 11, 16, 23,
     6, 10, 15, 21,  6, 10, 15, 21,  6, 10, 15, 21,  6, 10, 15, 21 >>

(* Table of integer sines, md5.cpp:49-66, each entry 0xHHHHLLLL written as *)
(* <<0xHHHH, 0xLLLL>>.                                                     *)
SineTable ==
  << <<\Hd76a, \Ha478>>, <<\He8c7, \Hb756>>, <<\H2420, \H70db>>, <<\Hc1bd, \Hceee>>,
     <<\Hf57c, \H0faf>>, <<\H4787, \Hc62a>>, <<\Ha830, \H4613>>, <<\Hfd46, \H9501>>,
     <<\H6980, \H98d8>>, <<\H8b44, \Hf7af>>, <<\Hffff, \H5bb1>>, <<\H895c, \Hd7be>>,
     <<\H6b90, \H1122>>, <<\Hfd98, \H7193>>, <<\Ha679, \H438e>>, <<\H49b4, \H0821>>,
     <<\Hf61e, \H2562>>, <<\Hc040, \Hb340>>, <<\H265e, \H5a51>>, <<\He9b6, \Hc7aa>>,
     <<\Hd62f, \H105d>>, <<\H0244, \H1453>>, <<\Hd8a1, \He681>>, <<\He7d3, \Hfbc8>>,
     <<\H21e1, \Hcde6>>, <<\Hc337, \H07d6>>, <<\Hf4d5, \H0d87>>, <<\H455a, \H14ed>>,
     <<\Ha9e3, \He905>>, <<\Hfcef, \Ha3f8>>, <<\H676f, \H02d9>>, <<\H8d2a, \H4c8a>>,
     <<\Hfffa, \H3942>>, <<\H8771, \Hf681>>, <<\H6d9d, \H6122>>, <<\Hfde5, \H380c>>,
     <<\Ha4be, \Hea44>>, <<\H4bde, \Hcfa9>>, <<\Hf6bb, \H4b60>>, <<\Hbebf, \Hbc70>>,
     <<\H289b, \H7ec6>>, <<\Heaa1, \H27fa>>, <<\Hd4ef, \H3085>>, <<\H0488, \H1d05>>,
     <<\Hd9d4, \Hd039>>, <<\He6db, \H99e5>>, <<\H1fa2, \H7cf8>>, <<\Hc4ac, \H5665>>,
     <<\Hf429, \H2244>>, <<\H432a, \Hff97>>, <<\Hab94, \H23a7>>, <<\Hfc93, \Ha039>>,
     <<\H655b, \H59c3>>, <<\H8f0c, \Hcc92>>, <<\Hffef, \Hf47d>>, <<\H8584, \H5dd1>>,
     <<\H6fa8, \H7e4f>>, <<\Hfe2c, \He6e0>>, <<\Ha301, \H4314>>, <<\H4e08, \H11a1>>,
     <<\Hf753, \H7e82>>, <<\Hbd3a, \Hf235>>, <<\H2ad7, \Hd2bb>>, <<\Heb86, \Hd391>> >>

---------------------------------------------------------------------------
(* uint32_t arithmetic on <<hi, lo>>.                                      *)

(* A sequence given by its elements: TLC evaluates it once, to a tuple. *)
Tabulated(f) == f \o << >>

(* A bitwise C++ operator (&, | or ^) on two bytes, from its truth table   *)
(* tt (tt[2p + q + 1] for the bits p and q), bit by bit from bit k on.     *)
RECURSIVE Bitwise(_, _, _, _)
Bitwise(tt, x, y, k) ==
  IF k >= 8 THEN 0
  ELSE tt[2 * (x % 2) + (y % 2) + 1] + 2 * Bitwise(tt, x \div 2, y \div 2, k + 1)

(* The operator tabulated once: Table(tt)[x + 1][y + 1]. *)
Table(tt) ==
  Tabulated([x \in 1 .. 256 |-> Tabulated([y \in 1 .. 256 |-> Bitwise(tt, x - 1, y - 1, 0)])])

AndB == Table(<< 0, 0, 0, 1 >>)
OrB  == Table(<< 0, 1, 1, 1 >>)
XorB == Table(<< 0, 1, 1, 0 >>)

(* A bitwise operator on uint32_t, byte by byte. *)
Op32(T, x, y) ==
  << 256 * T[(x[1] \div 256) + 1][(y[1] \div 256) + 1] + T[(x[1] % 256) + 1][(y[1] % 256) + 1],
     256 * T[(x[2] \div 256) + 1][(y[2] \div 256) + 1] + T[(x[2] % 256) + 1][(y[2] % 256) + 1] >>

(* &, |, ^ and ~ on uint32_t *)
And32(x, y) == Op32(AndB, x, y)
Or32(x, y)  == Op32(OrB, x, y)
Xor32(x, y) == Op32(XorB, x, y)
Not32(x) == << 65535 - x[1], 65535 - x[2] >>

(* x << c and x >> c on uint32_t, 0 <= c < 32: bits shifted out are lost. *)
Shl32(x, c) ==
  IF c < 16
    THEN << ((x[1] * (2^c)) % 65536) + (x[2] \div (2^(16 - c))), (x[2] * (2^c)) % 65536 >>
    ELSE << (x[2] * (2^(c - 16))) % 65536, 0 >>
Shr32(x, c) ==
  IF c < 16
    THEN << x[1] \div (2^c), (x[2] \div (2^c)) + ((x[1] % (2^c)) * (2^(16 - c))) >>
    ELSE << 0, x[1] \div (2^(c - 16)) >>

(* x + y on uint32_t (wraps mod 2^32) *)
Add32(x, y) ==
  LET lo == x[2] + y[2]
  IN  << (x[1] + y[1] + (lo \div 65536)) % 65536, lo % 65536 >>

(* leftrotate with the right shift one bit short *)
leftrotate_short(x, c) == Or32(Shl32(x, c), Shr32(x, 31 - c))

(* md5::leftrotate, md5.cpp:187-190 *)
leftrotate(x, c) == Or32(Shl32(x, c), Shr32(x, 32 - c))

(* The host's byte order: how the unions of md5.h:38-41/114-121 and the    *)
(* reinterpret_casts of md5.cpp lay a uint32_t over four bytes.            *)
HostIsLittleEndian == TRUE

(* The uint32_t that the host reads from four consecutive bytes. *)
LoadWord(b0, b1, b2, b3) ==
  IF HostIsLittleEndian THEN << b3 * 256 + b2, b1 * 256 + b0 >>
                        ELSE << b0 * 256 + b1, b2 * 256 + b3 >>

(* The four bytes the host stores for a uint32_t, lowest address first. *)
StoreWord(w) ==
  IF HostIsLittleEndian
    THEN << w[2] % 256, w[2] \div 256, w[1] % 256, w[1] \div 256 >>
    ELSE << w[1] \div 256, w[1] % 256, w[2] \div 256, w[2] % 256 >>

(* ENDIAN_BYTES, is_big, is_lil: md5.cpp:22-36 *)
ENDIAN_BYTES == << 1, 2, 3, 4 >>
is_big == LoadWord(ENDIAN_BYTES[1], ENDIAN_BYTES[2], ENDIAN_BYTES[3], ENDIAN_BYTES[4])
            = << \H0102, \H0304 >>
is_lil == LoadWord(ENDIAN_BYTES[1], ENDIAN_BYTES[2], ENDIAN_BYTES[3], ENDIAN_BYTES[4])
            = << \H0403, \H0201 >>

(* A 64-byte buffer seen as sixteen uint32_t (m_chunk.u32, chunk.w32). *)
AsWords(bytes) ==
  [k \in 1 .. (Len(bytes) \div 4) |->
     LoadWord(bytes[4 * k - 3], bytes[4 * k - 2], bytes[4 * k - 1], bytes[4 * k])]

(* Words seen as bytes (m_state.u8, m_sum.u8). *)
AsBytes(words) ==
  [k \in 1 .. (4 * Len(words)) |-> StoreWord(words[((k - 1) \div 4) + 1])[((k - 1) % 4) + 1]]

---------------------------------------------------------------------------
(* md5::process_chunk, md5.cpp:192-231.  M: sixteen words, X: four words.  *)

(* One iteration of the loop at md5.cpp:202-224 on S = <<A, B, C, D>>. *)
Round(i, S, M) ==
  LET A  == S[1]
      B  == S[2]
      C  == S[3]
      D  == S[4]
      F0 == IF i < 16 THEN Or32(And32(B, C), And32(Not32(B), D))
            ELSE IF i < 32 THEN Or32(And32(D, B), And32(Not32(D), C))
            ELSE IF i < 48 THEN Xor32(Xor32(B, C), D)
            ELSE Xor32(C, Or32(B, Not32(D)))
      g  == IF i < 16 THEN i
            ELSE IF i < 32 THEN (5 * i + 1) % 16
            ELSE IF i < 48 THEN (3 * i + 5) % 16
            ELSE (7 * i) % 16
      F  == Add32(Add32(Add32(F0, A), SineTable[i + 1]), M[g + 1])
  IN  << D, Add32(B, leftrotate(F, ShiftTable[i + 1])), B, C >>

(* The loop itself.  Len(S) = 4 always holds; testing it makes TLC finish  *)
(* one iteration before it starts the next.                                *)
RECURSIVE Rounds(_, _, _)
Rounds(i, S, M) ==
  IF i < BYTES_PER_CHUNK /\ Len(S) = 4 THEN Rounds(i + 1, Round(i, S, M), M) ELSE S

process_chunk(M, X) ==
  LET R == Rounds(0, X, M)
  IN  << Add32(X[1], R[1]), Add32(X[2], R[2]), Add32(X[3], R[3]), Add32(X[4], R[4]) >>

---------------------------------------------------------------------------
(* uint64_t arithmetic on four 16-bit limbs, least significant first.      *)

(* A small natural as a uint64_t. *)
U64(n) == << n % 65536, (n \div 65536) % 65536, 0, 0 >>

(* x + y on uint64_t (wraps mod 2^64) *)
Add64(x, y) ==
  LET s1 == x[1] + y[1]
      s2 == x[2] + y[2] + (s1 \div 65536)
      s3 == x[3] + y[3] + (s2 \div 65536)
      s4 == x[4] + y[4] + (s3 \div 65536)
  IN  << s1 % 65536, s2 % 65536, s3 % 65536, s4 % 65536 >>

(* x * k on uint64_t for a small factor k (wraps mod 2^64) *)
Mul64(x, k) ==
  LET p1 == x[1] * k
      p2 == x[2] * k + (p1 \div 65536)
      p3 == x[3] * k + (p2 \div 65536)
      p4 == x[4] * k + (p3 \div 65536)
  IN  << p1 % 65536, p2 % 65536, p3 % 65536, p4 % 65536 >>

(* x % m for a modulus m that divides 65536 *)
Mod64(x, m) == x[1] % m

(* The eight bytes the host stores for a uint64_t, lowest address first *)
(* (the reinterpret_cast<const char*> at md5.cpp:263 and :267).         *)
HostBytes64(x) ==
  LET le == << x[1] % 256, x[1] \div 256, x[2] % 256, x[2] \div 256,
               x[3] % 256, x[3] \div 256, x[4] % 256, x[4] \div 256 >>
  IN  IF HostIsLittleEndian THEN le ELSE [i \in 1 .. 8 |-> le[9 - i]]

---------------------------------------------------------------------------
(* The engine: the data members of class md5, md5.h:114-123.               *)

(* An indeterminate byte: memory that nothing has written yet. *)
Indet == -1

(* md5::md5(void), md5.cpp:274-280: the constructor leaves m_chunk unwritten. *)
md5 ==
  [ m_state        |-> << <<\H6745, \H2301>>, <<\Hefcd, \Hab89>>,
                          <<\H98ba, \Hdcfe>>, <<\H1032, \H5476>> >>,
    m_chunk        |-> [k \in 1 .. BYTES_PER_CHUNK |-> Indet],
    m_message_size |-> U64(0),
    m_chunk_size   |-> 0 ]

(* md5::blit(src, dst, num), md5.cpp:176-180: dst after                    *)
(* memcpy(dst, src, num); memset(dst + num, 0, BYTES_PER_CHUNK - num).     *)
blit(src, dst, num) ==
  [k \in 1 .. Len(dst) |-> IF k <= num THEN src[k]
                           ELSE IF k <= BYTES_PER_CHUNK THEN 0
                           ELSE dst[k]]

(* md5::is_aligned, md5.cpp:182-185: (mem & (sizeof(u32) - 1)) != 0 *)
is_aligned(mem) == (mem % 4) # 0

(* md5::ingest(const void*, u64), md5.cpp:325-351.                         *)
(* message: the byte_count bytes at address mem.  The result is the engine *)
(* when the call returns (self), with a record of what the call did:       *)
(* blocks, the 64-byte blocks handed to process_chunk, in order; probes,   *)
(* the calls of is_aligned; and, when the call read a uint32_t through a   *)
(* misaligned pointer (md5.cpp:333, undefined behaviour), fault = TRUE and *)
(* the engine at that instant (at_fault).                                  *)
RECURSIVE ingest_loop(_, _, _, _)
ingest_loop(self, msg, mem, log) ==
  IF Len(msg) = 0 THEN [self |-> self] @@ log
  ELSE
    IF self.m_chunk_size = 0 /\ Len(msg) >= BYTES_PER_CHUNK /\ is_aligned(mem)
    THEN
      LET block == SubSeq(msg, 1, BYTES_PER_CHUNK)
          next  == [self EXCEPT !.m_state = process_chunk(AsWords(block), @)]
      IN  ingest_loop(next,
                      SubSeq(msg, BYTES_PER_CHUNK + 1, Len(msg)),
                      mem + BYTES_PER_CHUNK,
                      [ blocks   |-> Append(log.blocks, block),
                        probes   |-> Append(log.probes, [mem |-> mem, aligned |-> TRUE, direct |-> TRUE]),
                        fault    |-> log.fault \/ (mem % 4 # 0),
                        at_fault |-> IF ~log.fault /\ (mem % 4 # 0) THEN self ELSE log.at_fault ])
    ELSE
      LET BYTES_REMAINING == BYTES_PER_CHUNK - self.m_chunk_size
          probed == self.m_chunk_size = 0 /\ Len(msg) >= BYTES_PER_CHUNK
          log1   == IF probed
                      THEN [log EXCEPT !.probes =
                              Append(@, [mem |-> mem, aligned |-> FALSE, direct |-> FALSE])]
                      ELSE log
      IN  IF Len(msg) < BYTES_REMAINING
          THEN
            ingest_loop([self EXCEPT !.m_chunk_size = @ + Len(msg),
                                     !.m_chunk = blit(msg, @, Len(msg))],
                        << >>, mem + Len(msg), log1)
          ELSE
            LET filled == blit(msg, self.m_chunk, BYTES_REMAINING)
            IN  ingest_loop([self EXCEPT !.m_chunk = filled,
                                         !.m_state = process_chunk(AsWords(filled), @),
                                         !.m_chunk_size = 0],
                            SubSeq(msg, BYTES_REMAINING + 1, Len(msg)),
                            mem + BYTES_REMAINING,
                            [log1 EXCEPT !.blocks = Append(@, filled)])

(* ingest without md5.cpp:328, m_message_size += byte_count *)
ingest_uncounted(self, message, mem) ==
  ingest_loop(self, message, mem,
              [blocks |-> << >>, probes |-> << >>, fault |-> FALSE, at_fault |-> self])

ingest(self, message, mem) ==
  ingest_loop([self EXCEPT !.m_message_size = Add64(@, U64(Len(message)))],
              message, mem,
              [blocks |-> << >>, probes |-> << >>, fault |-> FALSE, at_fault |-> self])

(* padding_size making room for the length but not for the 0x80 byte *)
padding_size_no_marker(self) ==
  LET p == BYTES_PER_CHUNK - Mod64(self.m_message_size, BYTES_PER_CHUNK)
  IN  IF p < 8 THEN p + BYTES_PER_CHUNK ELSE p

(* padding_size of md5::process_final_chunks, md5.cpp:243-246 *)
padding_size(self) ==
  LET p == BYTES_PER_CHUNK - Mod64(self.m_message_size, BYTES_PER_CHUNK)
  IN  IF p < 8 + 1 THEN p + BYTES_PER_CHUNK ELSE p

(* The local buffer of md5::process_final_chunks after md5.cpp:249-251. *)
first_final_chunk(self) ==
  [k \in 1 .. BYTES_PER_CHUNK |->
     IF k <= self.m_chunk_size THEN self.m_chunk[k]
     ELSE IF k = self.m_chunk_size + 1 THEN \H80
     ELSE 0]

(* The buffer after the message length is stored in its last eight bytes, *)
(* md5.cpp:260-270.                                                       *)
with_bitsize(chunk, self) ==
  LET ORIGINAL_MESSAGE_BITSIZE == Mul64(self.m_message_size, CHAR_BIT)
      raw == HostBytes64(ORIGINAL_MESSAGE_BITSIZE)
  IN  [k \in 1 .. BYTES_PER_CHUNK |->
         IF k <= BYTES_PER_CHUNK - 8 THEN chunk[k]
         ELSE IF is_lil THEN raw[k - (BYTES_PER_CHUNK - 8)]
         ELSE raw[BYTES_PER_CHUNK - k + 1]]

(* The blocks md5::process_final_chunks hands to process_chunk, in order, *)
(* md5.cpp:236-271.                                                       *)
final_chunks(self) ==
  LET chunk      == first_final_chunk(self)
      byte_count == self.m_chunk_size + padding_size(self)
  IN  IF byte_count > BYTES_PER_CHUNK
        THEN << chunk,
                with_bitsize([k \in 1 .. BYTES_PER_CHUNK |->
                                IF k <= BYTES_PER_CHUNK - 8 THEN 0 ELSE chunk[k]], self) >>
        ELSE << with_bitsize(chunk, self) >>

(* md5::process_final_chunks(X), md5.cpp:233-272: the words X afterwards. *)
process_final_chunks(self, X) ==
  LET fc == final_chunks(self)
  IN  IF Len(fc) > 1
        THEN process_chunk(AsWords(fc[2]), process_chunk(AsWords(fc[1]), X))
        ELSE process_chunk(AsWords(fc[1]), X)

(* The byte swap inside each word of md5::digest, md5.cpp:359-367. *)
swap_words(u8) ==
  [k \in 1 .. Len(u8) |-> u8[4 * ((k - 1) \div 4) + (4 - ((k - 1) % 4))]]

(* md5.cpp:358-368: the bytes of the sum, swapped on a big-endian host. *)
in_digest_order(u8) == IF is_big THEN swap_words(u8) ELSE u8

(* digest padding the live m_chunk and transforming the live m_state *)
digest_in_place(self) ==
  [ sum    |-> in_digest_order(
                 AsBytes(process_final_chunks(self, AsWords(AsBytes(self.m_state))))),
    self   |-> [self EXCEPT !.m_chunk = final_chunks(self)[Len(final_chunks(self))],
                            !.m_state = process_final_chunks(self, self.m_state)],
    blocks |-> final_chunks(self) ]

(* md5::digest, md5.cpp:353-370.  sum: the sixteen bytes returned; self:  *)
(* the engine when the call returns (the method is const and writes only  *)
(* its locals); blocks: the blocks it handed to process_chunk.            *)
digest(self) ==
  [ sum    |-> in_digest_order(
                 AsBytes(process_final_chunks(self, AsWords(AsBytes(self.m_state))))),
    self   |-> self,
    blocks |-> final_chunks(self) ]

(* md5::~md5, md5.cpp:292-296: memset(m_state.u8, 0, sizeof(m_state.u8)) *)
destroy(self) ==
  [self EXCEPT !.m_state = AsWords([k \in 1 .. BYTES_PER_DIGEST |-> 0])]

---------------------------------------------------------------------------
(* class md5::sum: sixteen bytes, m_sum.u8.                                *)

(* operator<, md5.cpp:68-78 *)
RECURSIVE lt_from(_, _, _)
lt_from(l, r, i) ==
  IF i > BYTES_PER_DIGEST THEN FALSE
  ELSE IF l[i] < r[i] THEN TRUE
  ELSE IF l[i] > r[i] THEN FALSE
  ELSE lt_from(l, r, i + 1)
sum_lt(l, r) == lt_from(l, r, 1)

(* operator>, md5.cpp:80-90 *)
RECURSIVE gt_from(_, _, _)
gt_from(l, r, i) ==
  IF i > BYTES_PER_DIGEST THEN FALSE
  ELSE IF l[i] > r[i] THEN TRUE
  ELSE IF l[i] < r[i] THEN FALSE
  ELSE gt_from(l, r, i + 1)
sum_gt(l, r) == gt_from(l, r, 1)

(* operator==, md5.cpp:102-110 *)
RECURSIVE eq_from(_, _, _)
eq_from(l, r, i) ==
  IF i > BYTES_PER_DIGEST THEN TRUE
  ELSE IF l[i] # r[i] THEN FALSE
  ELSE eq_from(l, r, i + 1)
sum_eq(l, r) == eq_from(l, r, 1)

(* operator!=, md5.cpp:112-120 *)
RECURSIVE ne_from(_, _, _)
ne_from(l, r, i) ==
  IF i > BYTES_PER_DIGEST THEN TRUE
  ELSE IF l[i] = r[i] THEN FALSE
  ELSE ne_from(l, r, i + 1)
sum_ne(l, r) == ne_from(l, r, 1)

(* operator<=, md5.cpp:92-95 *)
sum_le(l, r) == sum_eq(l, r) \/ sum_lt(l, r)

(* operator>=, md5.cpp:97-100 *)
sum_ge(l, r) == sum_eq(l, r) \/ sum_gt(l, r)

(* DIGITS of md5::sum::sprint_hex, md5.cpp:134 *)
DIGITS == << "0", "1", "2", "3", "4", "5", "6", "7",
             "8", "9", "a", "b", "c", "d", "e", "f" >>

(* md5::sum::sprint_hex, md5.cpp:132-141: the characters written from     *)
(* byte i on: b >> 4 is b / 16 and b & 15 is b % 16 for a byte.           *)
RECURSIVE sprint_hex(_, _)
sprint_hex(u8, i) ==
  IF i > BYTES_PER_DIGEST THEN ""
  ELSE DIGITS[(u8[i] \div 16) + 1] \o DIGITS[AndB[u8[i] + 1][15 + 1] + 1]
       \o sprint_hex(u8, i + 1)

(* md5::sum::hex, md5.cpp:153-160 *)
hex(u8) == sprint_hex(u8, 1)

(* md5hex(const void*, u64), md5.cpp:382-385, for the message at address  *)
(* mem: md5(message, byte_count).digest().hex(), with the fault flag of   *)
(* the ingest it makes.                                                   *)
hex_of(r) == [ str |-> hex(digest(r.self).sum), fault |-> r.fault ]
md5hex(message, mem) == hex_of(ingest(md5, message, mem))

---------------------------------------------------------------------------
(* Bounds and inputs.                                                      *)

(* The most calls of ingest made on the engine. *)
MaxCalls == 2
(* Message addresses are 4096 .. 4096 + MaxOffset. *)
MaxOffset == 2

Addresses == { 4096 + k : k \in 0 .. MaxOffset }

EMPTY == << >>
(* "abc" *)
ABC == << 97, 98, 99 >>
(* "The quick brown fox jumps over the lazy dog" *)
FOX == << 84, 104, 101, 32, 113, 117, 105, 99, 107, 32, 98, 114, 111, 119, 110,
          32, 102, 111, 120, 32, 106, 117, 109, 112, 115, 32, 111, 118, 101, 114,
          32, 116, 104, 101, 32, 108, 97, 122, 121, 32, 100, 111, 103 >>
(* n bytes that differ from their neighbours and from one length to another *)
Pattern(n) == Tabulated([k \in 1 .. n |-> (n + 3 * k) % 256])

(* The messages handed to ingest: empty, shorter than a block, ending at   *)
(* pending counts 55 and 56, exactly one block, and a block and 63 bytes.  *)
Messages == { EMPTY, ABC, FOX, Pattern(55), Pattern(56), Pattern(64), Pattern(127) }

---------------------------------------------------------------------------
(* State and actions.                                                      *)

engine == << m_state, m_chunk, m_message_size, m_chunk_size >>
sums   == << lhs, rhs, cmp >>
vars   == << m_state, m_chunk, m_message_size, m_chunk_size, op, out, hexed,
             s, calls, last, resumed, blocks, probes, lhs, rhs, cmp >>

(* The engine as one value. *)
Self ==
  [ m_state |-> m_state, m_chunk |-> m_chunk,
    m_message_size |-> m_message_size, m_chunk_size |-> m_chunk_size ]

(* The engine becomes e. *)
Becomes(e) ==
  /\ m_state' = e.m_state
  /\ m_chunk' = e.m_chunk
  /\ m_message_size' = e.m_message_size
  /\ m_chunk_size' = e.m_chunk_size

(* The object exists and the process runs. *)
Alive == op \notin { "~md5", "fault" }

ZeroSum == [k \in 1 .. BYTES_PER_DIGEST |-> 0]

Init ==
  /\ m_state = md5.m_state
  /\ m_chunk = md5.m_chunk
  /\ m_message_size = md5.m_message_size
  /\ m_chunk_size = md5.m_chunk_size
  /\ op = "md5"
  /\ out = << >>
  /\ hexed = << >>
  /\ s = << >>
  /\ calls = 0
  /\ last = 0
  /\ resumed = FALSE
  /\ blocks = << >>
  /\ probes = << >>
  /\ lhs = ZeroSum
  /\ rhs = ZeroSum
  /\ cmp = << >>

(* engine.ingest(message, Len(message)) with the message at address mem;  *)
(* r is what md5::ingest does.  The call returns; or, having read a        *)
(* uint32_t through a misaligned pointer, the process dies at that read.   *)
IngestDoes(r) ==
  /\ \/ /\ Becomes(r.self)
        /\ op' = "ingest"
     \/ /\ r.fault
        /\ Becomes(r.at_fault)
        /\ op' = "fault"
  /\ blocks' = r.blocks
  /\ probes' = r.probes

Ingest(message, mem) ==
  /\ Alive
  /\ calls < MaxCalls
  /\ IngestDoes(ingest(Self, message, mem))
  /\ s' = s \o message
  /\ calls' = calls + 1
  /\ last' = Len(message)
  /\ resumed' = (resumed \/ op = "digest")
  /\ out' = << >>
  /\ hexed' = << >>
  /\ UNCHANGED sums

(* engine.digest(); d is what md5::digest does. *)
DigestDoes(d) ==
  /\ Becomes(d.self)
  /\ out' = d.sum
  /\ blocks' = d.blocks

Digest ==
  /\ Alive
  /\ DigestDoes(digest(Self))
  /\ op' = "digest"
  /\ hexed' = << >>
  /\ probes' = << >>
  /\ UNCHANGED << s, calls, last, resumed, sums >>

(* The engine is destroyed. *)
Destroy ==
  /\ Alive
  /\ Becomes(destroy(Self))
  /\ op' = "~md5"
  /\ out' = << >>
  /\ hexed' = << >>
  /\ blocks' = << >>
  /\ probes' = << >>
  /\ UNCHANGED << s, calls, last, resumed, sums >>

(* md5hex(message, Len(message)): a free function that builds its own      *)
(* engine and leaves this one alone, so it is explored before the first    *)
(* ingest only.  h is what md5hex does.                                    *)
Md5HexDoes(message, h) ==
  \/ /\ hexed' = << message, h.str >>
     /\ op' = "md5hex"
  \/ /\ h.fault
     /\ hexed' = << >>
     /\ op' = "fault"

Md5Hex(message, mem) ==
  /\ Alive
  /\ calls = 0
  /\ Md5HexDoes(message, md5hex(message, mem))
  /\ out' = << >>
  /\ blocks' = << >>
  /\ probes' = << >>
  /\ UNCHANGED << engine, s, calls, last, resumed, sums >>

Next ==
  \/ \E message \in Messages, mem \in Addresses : Ingest(message, mem)
  \/ Digest
  \/ Destroy
  \/ \E message \in Messages, mem \in Addresses : Md5Hex(message, mem)

Spec == Init /\ [][Next]_vars

---------------------------------------------------------------------------
(* Comparing two md5::sum values.                                          *)

(* Sums that agree or differ in their first, second and last byte, and the *)
(* sums of three messages.                                                 *)
SumBytes == { 0, 1, 255 }
(* md5(message, byte_count).digest(): the sum of a fresh engine after the  *)
(* single call ingest(message), the message at an address ingest buffers.  *)
Reference(message) == digest(ingest(md5, message, 4096).self).sum
Sums ==
  { [k \in 1 .. BYTES_PER_DIGEST |->
       IF k = 1 THEN b1 ELSE IF k = 2 THEN b2 ELSE IF k = BYTES_PER_DIGEST THEN b3 ELSE 7]
    : b1 \in SumBytes, b2 \in SumBytes, b3 \in SumBytes }
  \cup { Reference(EMPTY), Reference(ABC), Reference(FOX) }

InitSum ==
  /\ m_state = md5.m_state
  /\ m_chunk = md5.m_chunk
  /\ m_message_size = md5.m_message_size
  /\ m_chunk_size = md5.m_chunk_size
  /\ op = "md5"
  /\ out = << >>
  /\ hexed = << >>
  /\ s = << >>
  /\ calls = 0
  /\ last = 0
  /\ resumed = FALSE
  /\ blocks = << >>
  /\ probes = << >>
  /\ lhs \in Sums
  /\ rhs \in Sums
  /\ cmp = << >>

Compared(name, result) ==
  /\ cmp' = << name, result >>
  /\ UNCHANGED << engine, op, out, hexed, s, calls, last, resumed, blocks, probes, lhs, rhs >>

Less      == Compared("<",  sum_lt(lhs, rhs))
Greater   == Compared(">",  sum_gt(lhs, rhs))
LessEq    == Compared("<=", sum_le(lhs, rhs))
GreaterEq == Compared(">=", sum_ge(lhs, rhs))
Equal     == Compared("==", sum_eq(lhs, rhs))
NotEqual  == Compared("!=", sum_ne(lhs, rhs))

NextSum == Less \/ Greater \/ LessEq \/ GreaterEq \/ Equal \/ NotEqual

SpecSum == InitSum /\ [][NextSum]_vars

---------------------------------------------------------------------------
(* Properties.                                                             *)

(* C1.  Split invariance: however the bytes s were cut into the pieces     *)
(* handed to ingest, digest() returns what a fresh engine returns after    *)
(* the single call ingest(s).                                              *)
SplitInvariance == op = "digest" => out = Reference(s)

(* C2.  Continuation: a digest taken after ingest was resumed behind an    *)
(* earlier digest is the digest of a fresh engine that ingested all the    *)
(* bytes in one call.                                                      *)
Continuation == (op = "digest" /\ resumed) => out = Reference(s)

(* C3.  Reference vectors: a fresh engine digests to d41d...427e; after    *)
(* one ingest of "abc" to 9001...7f72; after one ingest of "The quick      *)
(* brown fox jumps over the lazy dog" to 9e10...19d6; and md5hex returns   *)
(* the same strings for these messages.                                    *)
HexOfEmpty == "d41d8cd98f00b204e9800998ecf8427e"
HexOfAbc   == "900150983cd24fb0d6963f7d28e17f72"
HexOfFox   == "9e107d9d372bb6826bd81d3542a419d6"
ReferenceVectors ==
  /\ (op = "digest" /\ calls = 0) => hex(out) = HexOfEmpty
  /\ (op = "digest" /\ calls = 1 /\ s = ABC) => hex(out) = HexOfAbc
  /\ (op = "digest" /\ calls = 1 /\ s = FOX) => hex(out) = HexOfFox
  /\ (op = "md5hex" /\ hexed[1] = EMPTY) => hexed[2] = HexOfEmpty
  /\ (op = "md5hex" /\ hexed[1] = ABC) => hexed[2] = HexOfAbc
  /\ (op = "md5hex" /\ hexed[1] = FOX) => hexed[2] = HexOfFox
ReferenceVectorsWitness ==
  op = "digest" /\ calls = 1 /\ s = FOX /\ hex(out) = HexOfFox

(* C4.  digest() leaves the engine as it was (state words, pending bytes,  *)
(* pending count, total count), and a digest() right after a digest()      *)
(* returns the same sum.                                                   *)
DigestLeavesEngine ==
  [][op' = "digest" => (engine' = engine /\ (op = "digest" => out' = out))]_vars
DigestLeavesEngineWitness ==
  op = "digest" /\ resumed /\ m_chunk_size > 0 /\ Len(s) > BYTES_PER_CHUNK

(* C5.  The six comparison operators agree with the lexicographic order of *)
(* the sixteen bytes: == iff all bytes are equal, != iff not ==, < iff lhs *)
(* precedes rhs, > iff rhs precedes lhs, <= iff not >, >= iff not <.       *)
Precedes(l, r) ==
  \E i \in 1 .. BYTES_PER_DIGEST :
    l[i] < r[i] /\ \A j \in 1 .. (i - 1) : l[j] = r[j]
ComparisonsAgree ==
  cmp # << >> =>
    cmp[2] = CASE cmp[1] = "<"  -> Precedes(lhs, rhs)
               [] cmp[1] = ">"  -> Precedes(rhs, lhs)
               [] cmp[1] = "<=" -> ~Precedes(rhs, lhs)
               [] cmp[1] = ">=" -> ~Precedes(lhs, rhs)
               [] cmp[1] = "==" -> lhs = rhs
               [] cmp[1] = "!=" -> lhs # rhs

(* C6.  After the destructor of an engine that ingested bytes, the sixteen *)
(* state bytes and the pending block buffer hold only zero bytes.          *)
DestructorZeroes ==
  (op = "~md5" /\ Len(s) > 0) =>
    /\ \A k \in 1 .. BYTES_PER_DIGEST : AsBytes(m_state)[k] = 0
    /\ \A k \in 1 .. BYTES_PER_CHUNK : m_chunk[k] = 0

(* C7.  Between calls the first n = Len(s) % 64 bytes of the pending       *)
(* buffer are the last n bytes handed to ingest, in order; and the blocks  *)
(* an ingest compresses are the 64-byte blocks of s that it completes.     *)
BlocksCompleted ==
  LET first == (Len(s) - last) \div BYTES_PER_CHUNK
      count == (Len(s) \div BYTES_PER_CHUNK) - first
  IN  [k \in 1 .. count |->
         SubSeq(s, BYTES_PER_CHUNK * (first + k - 1) + 1, BYTES_PER_CHUNK * (first + k))]
PendingIsTail ==
  op \in { "ingest", "digest" } =>
    LET n == Len(s) % BYTES_PER_CHUNK
    IN  /\ SubSeq(m_chunk, 1, n) = SubSeq(s, Len(s) - n + 1, Len(s))
        /\ op = "ingest" => blocks = BlocksCompleted

(* C8.  Between calls the pending count is below 64, the total count is    *)
(* the sum of the byte counts handed to ingest (digest adds nothing), and  *)
(* the pending count is the total count modulo 64.                         *)
CounterInvariant ==
  Alive =>
    /\ m_chunk_size < BYTES_PER_CHUNK
    /\ m_message_size = U64(Len(s))
    /\ m_chunk_size = Len(s) % BYTES_PER_CHUNK
CounterInvariantWitness ==
  op = "digest" /\ calls = MaxCalls /\ m_chunk_size > 0 /\ Len(s) > 2 * BYTES_PER_CHUNK

(* C9.  digest() compresses one block when the pending count n is at most  *)
(* 55 and two when it is at least 56; these blocks are the n pending       *)
(* bytes, one byte 0x80, zero bytes, and in the last eight bytes the total *)
(* count times 8, least significant byte first.                            *)
RECURSIVE Flat(_)
Flat(bs) == IF bs = << >> THEN << >> ELSE Head(bs) \o Flat(Tail(bs))
(* Byte j (1 the least significant) of a number below 2^24. *)
LittleEndianByte(v, j) == IF j <= 3 THEN (v \div (256 ^ (j - 1))) % 256 ELSE 0
PaddingLayout ==
  op = "digest" =>
    LET n    == m_chunk_size
        tail == Flat(blocks)
    IN  /\ Len(blocks) = IF n <= 55 THEN 1 ELSE 2
        /\ Len(tail) = BYTES_PER_CHUNK * Len(blocks)
        /\ \A k \in 1 .. Len(tail) :
             tail[k] = IF k <= n THEN m_chunk[k]
                       ELSE IF k = n + 1 THEN 128
                       ELSE IF k <= Len(tail) - 8 THEN 0
                       ELSE LittleEndianByte(8 * Len(s), k - (Len(tail) - 8))
PaddingLayoutWitness ==
  op = "digest" /\ m_chunk_size = 56 /\ Len(blocks) = 2

(* C10.  is_aligned(mem) is true exactly when mem is a multiple of 4, so   *)
(* ingest compresses straight from the message only at such an address.    *)
AlignmentCheck ==
  \A i \in 1 .. Len(probes) :
    /\ probes[i].aligned = (probes[i].mem % 4 = 0)
    /\ probes[i].direct => probes[i].mem % 4 = 0

===========================================================================
